---- MODULE Spec2Model ----
(***************************************************************************)
(* Differential-evolution nesting optimizer (differential_evolution.py).   *)
(*                                                                         *)
(* Shapes are Python dicts: they are modelled as functions from key        *)
(* strings to values, so that an absent key ('rotacao' on a mutant, 'r' on *)
(* a rectangle) is an absent element of the DOMAIN.  Python lists are      *)
(* sequences; Python index k is sequence index k+1.                        *)
(*                                                                         *)
(* Coordinates are floats in the program.  They are modelled in fixed      *)
(* point with one unit per grid cell: random.uniform draws a grid point of *)
(* its interval and the product 0.8 * d is rounded to the nearest unit.    *)
(***************************************************************************)
EXTENDS Integers, Sequences, FiniteSets, TLC

VARIABLES
    cfg,             \* the constructor's arguments, as stored on self
    population,      \* self.population
    new_population,  \* run(): the list being built for the next generation
    gen,             \* run(): number of completed iterations of the outer loop
    pc,              \* "run" | "returned" | "ValueError" (an uncaught exception of
                     \* run()) | "geom" (SpecGeom)
    result,          \* <<>> until run() returns, then <<layout>>
    cand,            \* SpecGeom: the candidate handed to evaluate/overlaps
    pen,             \* SpecGeom: <<>> or <<evaluate(cand)>>
    ovl              \* SpecGeom: <<>> or <<the matrix of overlaps(cand[i], cand[j])>>

vars == <<cfg, population, new_population, gen, pc, result, cand, pen, ovl>>

\* --------------------------------------------------------------- bounds
MaxIter == 1      \* max_iter ranges over -1 .. MaxIter
MaxCoord == 2     \* SpecGeom: coordinates range over -1 .. MaxCoord
MaxShapes == 2    \* SpecGeom: candidates have 0 .. MaxShapes shapes

\* --------------------------------------------------- program constants
NumDonors == 3    \* random.sample(idxs, 3)
FNum == 4         \* differential weight 0.8 = FNum / FDen
FDen == 5
OutPenalty == 100
OverlapPenalty == 50

\* ------------------------------------------------------------- helpers
Min(a, b) == IF a < b THEN a ELSE b
Max(a, b) == IF a > b THEN a ELSE b

\* dict.get(key, default)
Get(d, key, default) == IF key \in DOMAIN d THEN d[key] ELSE default

\* shape.get('largura', shape.get('r', 0) * 2)
ExtX(shape) == Get(shape, "largura", Get(shape, "r", 0) * 2)

\* shape.get('altura', shape.get('r', 0) * 2)
ExtY(shape) == Get(shape, "altura", Get(shape, "r", 0) * 2)

\* {**recorte, "x": new_x, "y": new_y, "rotacao": new_rotation}
PlacedInit(recorte, new_x, new_y, new_rotation) ==
    ("x" :> new_x) @@ ("y" :> new_y) @@ ("rotacao" :> new_rotation) @@ recorte

\* {**recorte, "x": new_x, "y": new_y}
PlacedMutant(recorte, new_x, new_y) ==
    ("x" :> new_x) @@ ("y" :> new_y) @@ recorte

\* random.uniform(a, b): a + (b - a) * random(), also when b < a
Uniform(a, b) == IF a <= b THEN a .. b ELSE b .. a

\* 0.8 * d, rounded to the nearest grid unit
TimesF(d) == (2 * FNum * d + FDen) \div (2 * FDen)

\* ------------------------------------------------------------ overlaps
Overlaps_OneSided(shape1, shape2) ==
    IF shape1["tipo"] = "circular" /\ shape2["tipo"] = "circular"
    THEN (shape1["x"] - shape2["x"]) * (shape1["x"] - shape2["x"])
           + (shape1["y"] - shape2["y"]) * (shape1["y"] - shape2["y"])
         < (shape1["r"] + shape2["r"]) * (shape1["r"] + shape2["r"])
    ELSE IF shape1["tipo"] # "circular" /\ shape2["tipo"] # "circular"
    THEN ~ (    shape1["x"] + shape1["largura"] <= shape2["x"]
             \/ shape1["y"] + shape1["altura"] <= shape2["y"]
             \/ shape2["y"] + shape2["altura"] <= shape1["y"])
    ELSE FALSE

\* overlaps(shape1, shape2).  np.sqrt is monotone and exact on the squares of
\* the (non-negative) radius sums, so distance < r1 + r2 is the comparison of
\* the squared distance with the squared sum.
overlaps(shape1, shape2) ==
    IF shape1["tipo"] = "circular" /\ shape2["tipo"] = "circular"
    THEN (shape1["x"] - shape2["x"]) * (shape1["x"] - shape2["x"])
           + (shape1["y"] - shape2["y"]) * (shape1["y"] - shape2["y"])
         < (shape1["r"] + shape2["r"]) * (shape1["r"] + shape2["r"])
    ELSE IF shape1["tipo"] # "circular" /\ shape2["tipo"] # "circular"
    THEN ~ (    shape1["x"] + shape1["largura"] <= shape2["x"]
             \/ shape2["x"] + shape2["largura"] <= shape1["x"]
             \/ shape1["y"] + shape1["altura"] <= shape2["y"]
             \/ shape2["y"] + shape2["altura"] <= shape1["y"])
    ELSE FALSE

\* ------------------------------------------------------------ evaluate
\* the inner loop of evaluate: for j, other in enumerate(candidate)
RECURSIVE OverlapTerms(_, _, _)
OverlapTerms(candidate, i, j) ==
    IF j > Len(candidate) THEN 0
    ELSE (IF i # j /\ overlaps(candidate[i], candidate[j]) THEN OverlapPenalty ELSE 0)
         + OverlapTerms(candidate, i, j + 1)

\* the two out-of-sheet tests of evaluate for one shape
BoundsTerms(shape, sheet_width, sheet_height) ==
      (IF shape["x"] < 0 \/ shape["x"] + ExtX(shape) > sheet_width
       THEN OutPenalty ELSE 0)
    + (IF shape["y"] < 0 \/ shape["y"] + ExtY(shape) > sheet_height
       THEN OutPenalty ELSE 0)

\* the outer loop of evaluate: for i, shape in enumerate(candidate)
RECURSIVE ShapeTerms(_, _, _, _)
ShapeTerms(candidate, i, sheet_width, sheet_height) ==
    IF i > Len(candidate) THEN 0
    ELSE BoundsTerms(candidate[i], sheet_width, sheet_height)
         + OverlapTerms(candidate, i, 1)
         + ShapeTerms(candidate, i + 1, sheet_width, sheet_height)

evaluate(candidate, c) == ShapeTerms(candidate, 1, c.sheet_width, c.sheet_height)

\* -------------------------------------------------------------- mutate
\* idxs = [idx for idx in range(self.pop_size) if idx != target_index]
Idxs(c, target_index) == (1 .. c.pop_size) \ {target_index}

\* the outcomes of random.sample(idxs, 3): ordered, without repetition
Samples(idxs) ==
    {s \in idxs \X idxs \X idxs : s[1] # s[2] /\ s[1] # s[3] /\ s[2] # s[3]}

Clamp_None(v, hi) == v

\* min(max(v, 0), hi)
Clamp(v, hi) == Min(Max(v, 0), hi)

MutantShape_WrongPiece(pop, c, abc, i) ==
    PlacedMutant(c.recortes[1],
        Clamp(pop[abc[1]][i]["x"] + TimesF(pop[abc[2]][i]["x"] - pop[abc[3]][i]["x"]),
              c.sheet_width - ExtX(c.recortes[i])),
        Clamp(pop[abc[1]][i]["y"] + TimesF(pop[abc[2]][i]["y"] - pop[abc[3]][i]["y"]),
              c.sheet_height - ExtY(c.recortes[i])))

\* the body of mutate's loop for piece i, donors a, b, c = abc
MutantShape(pop, c, abc, i) ==
    PlacedMutant(c.recortes[i],
        Clamp(pop[abc[1]][i]["x"] + TimesF(pop[abc[2]][i]["x"] - pop[abc[3]][i]["x"]),
              c.sheet_width - ExtX(c.recortes[i])),
        Clamp(pop[abc[1]][i]["y"] + TimesF(pop[abc[2]][i]["y"] - pop[abc[3]][i]["y"]),
              c.sheet_height - ExtY(c.recortes[i])))

\* mutate(target_index), given the outcome abc of random.sample
mutate(pop, c, abc) ==
    [i \in 1 .. Len(c.recortes) |-> MutantShape(pop, c, abc, i)]

\* ----------------------------------------------------------- crossover
\* the outcomes of the len(target) draws random.random() < 0.9
Draws(target) == [1 .. Len(target) -> BOOLEAN]

\* crossover(target, mutant), given the draws
crossover(target, mutant, draws) ==
    [i \in 1 .. Len(target) |-> IF draws[i] THEN mutant[i] ELSE target[i]]

\* -------------------------------------------------------------- select
select_Always(target, trial, c) == trial

select(target, trial, c) ==
    IF evaluate(trial, c) < evaluate(target, c) THEN trial ELSE target

\* ------------------------------------------------------------ min(...)
\* min(self.population, key=self.evaluate) scans the list and replaces the
\* element it holds only by one of strictly lower key; MinScan is the scan from
\* position k on, holding position best
RECURSIVE MinScan(_, _, _, _)
MinScan(pop, c, k, best) ==
    IF k > Len(pop) THEN best
    ELSE MinScan(pop, c, k + 1,
                 IF evaluate(pop[k], c) < evaluate(pop[best], c) THEN k ELSE best)

min_by_evaluate(pop, c) == pop[MinScan(pop, c, 2, 1)]

\* ------------------------------------------------------ configurations
Rect(w, h) == [tipo |-> "retangular", largura |-> w, altura |-> h]
Diamond(w, h) == [tipo |-> "diamante", largura |-> w, altura |-> h]
Circle(r) == [tipo |-> "circular", r |-> r]

\* sheets and piece lists handed to the constructor
Scenarios ==
    { [sheet_width |-> 2, sheet_height |-> 1, recortes |-> <<Rect(1, 1), Diamond(1, 1)>>],
      [sheet_width |-> 3, sheet_height |-> 2, recortes |-> <<Circle(1)>>],
      [sheet_width |-> 2, sheet_height |-> 1, recortes |-> <<Diamond(3, 1)>>] }

PopSizes == {NumDonors, NumDonors + 1}

Configs ==
    { [pop_size |-> p, max_iter |-> m, sheet_width |-> s.sheet_width,
       sheet_height |-> s.sheet_height, recortes |-> s.recortes] :
        p \in PopSizes, m \in -1 .. MaxIter, s \in Scenarios }

\* ----------------------------------------------- initialize_population
\* random.choice([0, 90]), call number k of initialize_population.  'rotacao'
\* is read by none of the methods; the draws enumerated are those of a source
\* that yields 0 and 90 in turn, which bounds the initial states.
Choice(k) == IF k % 2 = 1 THEN 0 ELSE 90

\* the individuals iteration j of initialize_population's outer loop can
\* build: x and y are drawn per shape from the grid points of their intervals
Individuals(c, j) ==
    LET n == Len(c.recortes)
        xr(i) == Uniform(0, c.sheet_width - ExtX(c.recortes[i]))
        yr(i) == Uniform(0, c.sheet_height - ExtY(c.recortes[i]))
    IN { [i \in 1 .. n |->
            PlacedInit(c.recortes[i], xs[i], ys[i], Choice((j - 1) * n + i))] :
            xs \in {f \in [1 .. n -> UNION {xr(i) : i \in 1 .. n}] :
                        \A i \in 1 .. n : f[i] \in xr(i)},
            ys \in {f \in [1 .. n -> UNION {yr(i) : i \in 1 .. n}] :
                        \A i \in 1 .. n : f[i] \in yr(i)} }

\* initialize_population()
initialize_population(c) ==
    {pop \in [1 .. c.pop_size -> UNION {Individuals(c, j) : j \in 1 .. c.pop_size}] :
        \A j \in 1 .. c.pop_size : pop[j] \in Individuals(c, j)}

\* ------------------------------------------------------- the optimizer
\* after DifferentialEvolution(...), with run() about to start
Init ==
    /\ cfg \in Configs
    /\ population \in initialize_population(cfg)
    /\ new_population = <<>>
    /\ gen = 0
    /\ pc = "run"
    /\ result = <<>>
    /\ cand = <<>>
    /\ pen = <<>>
    /\ ovl = <<>>

\* the mutants mutate(i) can return
Mutants(pop, c, i) == {mutate(pop, c, abc) : abc \in Samples(Idxs(c, i))}

\* the trials crossover(population[i], mutant) can return
Trials(pop, c, i) ==
    {crossover(pop[i], mutant, draws) : mutant \in Mutants(pop, c, i), draws \in Draws(pop[i])}

\* the entries the inner loop of run() can append for index i
Entries(pop, c, i) == {select(pop[i], trial, c) : trial \in Trials(pop, c, i)}

Step_InPlace ==
    /\ pc = "run"
    /\ gen < cfg.max_iter
    /\ Len(new_population) < cfg.pop_size
    /\ LET i == Len(new_population) + 1
       IN IF Cardinality(Idxs(cfg, i)) < NumDonors
          THEN /\ pc' = "ValueError"
               /\ UNCHANGED <<population, new_population>>
          ELSE /\ \E e \in Entries(population, cfg, i) :
                      /\ new_population' = Append(new_population, e)
                      /\ population' = [population EXCEPT ![i] = e]
               /\ UNCHANGED pc
    /\ UNCHANGED <<cfg, gen, result, cand, pen, ovl>>

\* one iteration of run()'s inner loop: mutate, crossover, select, append.
\* random.sample raises ValueError when fewer than 3 other indices exist.
Step ==
    /\ pc = "run"
    /\ gen < cfg.max_iter
    /\ Len(new_population) < cfg.pop_size
    /\ LET i == Len(new_population) + 1
       IN IF Cardinality(Idxs(cfg, i)) < NumDonors
          THEN /\ pc' = "ValueError"
               /\ UNCHANGED new_population
          ELSE /\ \E e \in Entries(population, cfg, i) :
                      new_population' = Append(new_population, e)
               /\ UNCHANGED pc
    /\ UNCHANGED <<cfg, population, gen, result, cand, pen, ovl>>

\* the end of one iteration of run()'s outer loop: self.population = new_population
EndGeneration ==
    /\ pc = "run"
    /\ gen < cfg.max_iter
    /\ Len(new_population) = cfg.pop_size
    /\ population' = new_population
    /\ new_population' = <<>>
    /\ gen' = gen + 1
    /\ UNCHANGED <<cfg, pc, result, cand, pen, ovl>>

\* return min(self.population, key=self.evaluate); min raises on an empty list
Return ==
    /\ pc = "run"
    /\ gen >= cfg.max_iter
    /\ IF Len(population) = 0
       THEN pc' = "ValueError" /\ UNCHANGED result
       ELSE pc' = "returned" /\ result' = <<min_by_evaluate(population, cfg)>>
    /\ UNCHANGED <<cfg, population, new_population, gen, cand, pen, ovl>>

Next == Step \/ EndGeneration \/ Return

Spec == Init /\ [][Next]_vars

\* ---------------------------------------------- geometry on any candidate
\* evaluate and overlaps are methods of an optimizer and take any candidate:
\* the specification below builds an optimizer without pieces and hands the
\* two methods candidates of any shapes at any grid positions.
GeomConfig ==
    [pop_size |-> NumDonors + 1, max_iter |-> 0, sheet_width |-> 3, sheet_height |-> 2,
     recortes |-> <<>>]

GeomPieces == {Rect(2, 1), Diamond(1, 1), Circle(1)}

GeomShapes ==
    {PlacedMutant(p, x, y) : p \in GeomPieces, x \in -1 .. MaxCoord, y \in 0 .. 1}

GeomCandidates == UNION {[1 .. n -> GeomShapes] : n \in 0 .. MaxShapes}

InitGeom ==
    /\ cfg = GeomConfig
    /\ population \in initialize_population(cfg)
    /\ new_population = <<>>
    /\ gen = 0
    /\ pc = "geom"
    /\ result = <<>>
    /\ cand \in GeomCandidates
    /\ pen = <<>>
    /\ ovl = <<>>

\* penalty = self.evaluate(cand)
Evaluate ==
    /\ pc = "geom"
    /\ pen = <<>>
    /\ pen' = <<evaluate(cand, cfg)>>
    /\ UNCHANGED <<cfg, population, new_population, gen, pc, result, cand, ovl>>

\* self.overlaps(cand[i], cand[j]) for every ordered pair of positions
Overlaps ==
    /\ pc = "geom"
    /\ ovl = <<>>
    /\ ovl' = << [i \in 1 .. Len(cand) |->
                    [j \in 1 .. Len(cand) |-> overlaps(cand[i], cand[j])]] >>
    /\ UNCHANGED <<cfg, population, new_population, gen, pc, result, cand, pen>>

NextGeom == Evaluate \/ Overlaps

SpecGeom == InitGeom /\ [][NextGeom]_vars

\* ================================================================ claims
\* the candidates run() holds: the stored population and the list being built
Held == {population[i] : i \in 1 .. Len(population)}
            \cup {new_population[i] : i \in 1 .. Len(new_population)}

\* the inner loop of run() is about to build a mutant and a trial
Building ==
    /\ pc = "run"
    /\ gen < cfg.max_iter
    /\ Len(new_population) < cfg.pop_size
    /\ Cardinality(Idxs(cfg, Len(new_population) + 1)) >= NumDonors

\* the mutants and trials the next iteration of the inner loop can build
Built ==
    IF Building
    THEN Mutants(population, cfg, Len(new_population) + 1)
            \cup Trials(population, cfg, Len(new_population) + 1)
    ELSE {}

\* C1: for every index i, the penalty of population[i] after a generation is
\* at most its penalty before that generation, the entry selected for index i
\* never having a higher penalty than the target it replaces.
C1_SelectionMonotone ==
    [][/\ \A i \in 1 .. Len(population) :
             evaluate(population'[i], cfg) <= evaluate(population[i], cfg)
       /\ \A i \in 1 .. Len(new_population') :
             evaluate(new_population'[i], cfg) <= evaluate(population[i], cfg)]_vars

\* a generation has been computed in which some slot got a strictly better entry
C1_Witness ==
    /\ pc = "run"
    /\ Len(new_population) = cfg.pop_size
    /\ \E i \in 1 .. cfg.pop_size :
          evaluate(new_population[i], cfg) < evaluate(population[i], cfg)
    /\ \E i \in 1 .. cfg.pop_size :
          /\ new_population[i] = population[i]
          /\ evaluate(population[i], cfg) > 0

\* fits_in_sheet as the specification defines it
FitsInSheet(shape, c) ==
    IF shape["tipo"] = "circular"
    THEN /\ 0 <= shape["x"] - shape["r"] /\ shape["x"] + shape["r"] <= c.sheet_width
         /\ 0 <= shape["y"] - shape["r"] /\ shape["y"] + shape["r"] <= c.sheet_height
    ELSE /\ 0 <= shape["x"] /\ shape["x"] + shape["largura"] <= c.sheet_width
         /\ 0 <= shape["y"] /\ shape["y"] + shape["altura"] <= c.sheet_height

\* C2: evaluate(candidate) >= 0, and it is 0 exactly when every shape fits in
\* the sheet (circles as disks centered at (x, y)) and no two distinct shapes
\* overlap.
C2_ZeroIffFeasible ==
    pen # <<>> =>
        /\ pen[1] >= 0
        /\ (pen[1] = 0) <=>
              (/\ \A i \in 1 .. Len(cand) : FitsInSheet(cand[i], cfg)
               /\ \A i, j \in 1 .. Len(cand) : i # j => ~ overlaps(cand[i], cand[j]))

\* C3: overlaps(a, b) = overlaps(b, a) for every pair of shapes.
C3_OverlapsSymmetric ==
    ovl # <<>> => \A i, j \in 1 .. Len(cand) : ovl[1][i][j] = ovl[1][j][i]

\* overlaps has been applied, in both orders, to a rectangle and a diamond at
\* different positions that overlap
C3_Witness ==
    /\ ovl # <<>>
    /\ \E i, j \in 1 .. Len(cand) :
          /\ cand[i]["tipo"] = "retangular" /\ cand[j]["tipo"] = "diamante"
          /\ cand[i]["x"] # cand[j]["x"]
          /\ ovl[1][i][j]

\* the squared distance from (px, py) to the closest point of a shape's box
ClampDistSq(px, py, box) ==
    LET qx == Min(Max(px, box["x"]), box["x"] + box["largura"])
        qy == Min(Max(py, box["y"]), box["y"] + box["altura"])
    IN (px - qx) * (px - qx) + (py - qy) * (py - qy)

\* C4: for a circle and a rectangle or diamond, in either order, overlaps is
\* true exactly when the circle's center is closer than its radius to the
\* closest point of the box.
C4_MixedIsClampDistance ==
    ovl # <<>> =>
        \A i, j \in 1 .. Len(cand) :
            (cand[i]["tipo"] = "circular" /\ cand[j]["tipo"] # "circular") =>
                LET near == ClampDistSq(cand[i]["x"], cand[i]["y"], cand[j])
                               < cand[i]["r"] * cand[i]["r"]
                IN ovl[1][i][j] = near /\ ovl[1][j][i] = near

\* the configurations the specification rejects
InvalidConfig(c) ==
    \/ c.pop_size < NumDonors + 1
    \/ c.max_iter < 0
    \/ \E k \in 1 .. Len(c.recortes) :
          ExtX(c.recortes[k]) > c.sheet_width \/ ExtY(c.recortes[k]) > c.sheet_height

\* C5: an invalid configuration is rejected with a ConfigurationError before a
\* population exists or a generation runs, and run() raises nothing.
C5_InvalidConfigRejected ==
    /\ InvalidConfig(cfg) =>
          pc = "ConfigurationError" /\ population = <<>> /\ new_population = <<>>
    /\ pc # "ValueError"

\* the kind and size descriptors of a placed shape
Descriptors(shape) == [k \in DOMAIN shape \ {"x", "y", "rotacao"} |-> shape[k]]

WellFormed(candidate, c) ==
    /\ Len(candidate) = Len(c.recortes)
    /\ \A k \in 1 .. Len(c.recortes) : Descriptors(candidate[k]) = c.recortes[k]

\* C6: the population holds pop_size candidates, and every candidate, mutant
\* and trial has one shape per piece, with the kind and sizes of that piece.
C6_Structure ==
    pc # "geom" =>
        /\ Len(population) = cfg.pop_size
        /\ Len(new_population) <= cfg.pop_size
        /\ \A candidate \in Held \cup Built : WellFormed(candidate, cfg)

\* a mutant-derived shape of the second piece sits in the population after a
\* generation
C6_Witness ==
    /\ pc = "run"
    /\ gen >= 1
    /\ Len(cfg.recortes) = 2
    /\ cfg.recortes[1] # cfg.recortes[2]
    /\ \E i \in 1 .. Len(population) : "rotacao" \notin DOMAIN population[i][2]

\* the lowest index whose penalty is minimal
FirstMinimum(pop, c) ==
    CHOOSE k \in 1 .. Len(pop) :
        /\ \A j \in 1 .. Len(pop) : evaluate(pop[k], c) <= evaluate(pop[j], c)
        /\ \A j \in 1 .. k - 1 : evaluate(pop[j], c) > evaluate(pop[k], c)

\* C7: for max_iter >= 0, run() raises nothing, and returns after exactly
\* max_iter generations the first candidate of minimal penalty of the final
\* population.
C7_RunReturnsFirstMinimum ==
    cfg.max_iter >= 0 =>
        /\ pc # "ValueError"
        /\ gen <= cfg.max_iter
        /\ pc = "returned" =>
              /\ gen = cfg.max_iter
              /\ result = <<population[FirstMinimum(population, cfg)]>>

\* on configurations with enough donors (pop_size > NumDonors) run() does
\* return, after exactly max_iter generations, the first candidate of minimal
\* penalty
ReturnsFirstMinimum_EnoughDonors ==
    (cfg.pop_size > NumDonors /\ pc # "geom") => C7_RunReturnsFirstMinimum

\* C8: every shape of the population and of the returned layout carries a
\* rotation in {0, 90}.
C8_RotationPresent ==
    \A candidate \in {population[i] : i \in 1 .. Len(population)}
                        \cup {result[i] : i \in 1 .. Len(result)} :
        \A k \in 1 .. Len(candidate) :
            "rotacao" \in DOMAIN candidate[k] /\ candidate[k]["rotacao"] \in {0, 90}

\* C9: while the indices of a generation are processed the stored population
\* is unchanged and each new entry is built from it; the population changes
\* only by being replaced by the complete new generation.
C9_SnapshotIsolation ==
    [][/\ new_population' # new_population /\ new_population' # <<>> =>
            /\ population' = population
            /\ \E e \in Entries(population, cfg, Len(new_population) + 1) :
                  new_population' = Append(new_population, e)
       /\ population' # population =>
            /\ Len(new_population) = cfg.pop_size
            /\ population' = new_population
            /\ new_population' = <<>>]_vars

\* part of a generation is computed, an entry already selected differs from
\* the stored one, and further indices remain to be processed
C9_Witness ==
    /\ Building
    /\ \E i \in 1 .. Len(new_population) : new_population[i] # population[i]

\* every piece fits the sheet
PiecesFit(c) ==
    \A k \in 1 .. Len(c.recortes) :
        ExtX(c.recortes[k]) <= c.sheet_width /\ ExtY(c.recortes[k]) <= c.sheet_height

InRange(candidate, c) ==
    \A k \in 1 .. Len(candidate) :
        /\ 0 <= candidate[k]["x"]
        /\ candidate[k]["x"] <= c.sheet_width - ExtX(c.recortes[k])
        /\ 0 <= candidate[k]["y"]
        /\ candidate[k]["y"] <= c.sheet_height - ExtY(c.recortes[k])

OverlappingPairs(candidate) ==
    {p \in (1 .. Len(candidate)) \X (1 .. Len(candidate)) :
        p[1] # p[2] /\ overlaps(candidate[p[1]], candidate[p[2]])}

\* C10: when every piece fits the sheet, every shape of every candidate,
\* mutant and trial lies in [0, sheet_width - extent_x] x [0, sheet_height -
\* extent_y], and the penalty of every candidate is 50 times its number of
\* ordered overlapping pairs.
C10_InBounds ==
    (pc # "geom" /\ PiecesFit(cfg)) =>
        \A candidate \in Held \cup Built :
            /\ InRange(candidate, cfg)
            /\ evaluate(candidate, cfg)
                 = OverlapPenalty * Cardinality(OverlappingPairs(candidate))

\* after a generation the population holds a mutant-derived shape and a
\* candidate whose two shapes overlap
C10_Witness ==
    /\ pc = "run"
    /\ gen >= 1
    /\ PiecesFit(cfg)
    /\ \E i \in 1 .. Len(population) :
          \E k \in 1 .. Len(population[i]) : "rotacao" \notin DOMAIN population[i][k]
    /\ \E i \in 1 .. Len(population) : evaluate(population[i], cfg) = 2 * OverlapPenalty

====
